---- MODULE Spec2Model ----
(***************************************************************************)
(* A model of openclimb/aws-cost-analysis: the batch report generator of   *)
(* src/src/simple_analyzer.py (SimpleAWSCostAnalyzer), whose analysis and  *)
(* suggestion code is shared line for line with src/src/main.py.           *)
(*                                                                         *)
(* Texts the program inspects character by character (service names, file  *)
(* names) are sequences of one-character strings.  A CSV cell is <<>> when  *)
(* it is empty, <<n>> when it holds the whole amount n and <<n, t>> when it *)
(* holds the decimal amount n.t; decimal amounts occur in the tables of the *)
(* chart only, the tables that are analysed hold whole amounts.  Every      *)
(* quotient the program computes is kept as an exact fraction [num, den]   *)
(* in lowest terms (binary floating point rounding is not modelled).       *)
(***************************************************************************)
EXTENDS Integers, Sequences, FiniteSets, TLC

VARIABLES
    csv,        \* the input file: the rows csv.DictReader yields
    today,      \* the calendar date datetime.now() returns
    pc,         \* the position of the running process
    run,        \* 1 in the first execution of main(), 2 in the second
    data,       \* self.data
    services,   \* self.services
    todo,       \* the services the loop of run_analysis has not reached yet
    cur,        \* service_name of the current iteration
    analysis,   \* the analysis dict of the current iteration
    markdown,   \* markdown_content of the current iteration
    files,      \* the output directory: file name -> chunks written
    log,        \* the steps this execution has taken, in order
    iterated,   \* <<service, date>> of every report this execution rendered
    first,      \* what the first execution left: [files, iterated]
    result,     \* the value analyze_service_characteristics last returned
    exists      \* whether csv_path and output_docs_path exist on disk

vars == <<csv, today, pc, run, data, services, todo, cur, analysis, markdown,
          files, log, iterated, first, result, exists>>

-----------------------------------------------------------------------------
(* Bounds and input domains *)

\* The largest number of rows of an input table.
MaxRows == 2

\* The month columns an input header can hold, in order.
MonthLabels == <<"cost(2025-03)", "cost(2025-04)", "cost(2025-05)">>

\* The amounts a cell of a one-row table can hold.
Amounts == {0, 18, 20, 21, 24, 25}

\* The amounts a cell of a table of several rows can hold.
CoarseAmounts == {20, 25}

ItemNames == {"All", "Storage"}

AmazonS3 == <<"A", "m", "a", "z", "o", "n", " ", "S", "3">>
AmazonEC2 == <<"A", "m", "a", "z", "o", "n", " ", "E", "C", "2">>
S3 == <<"S", "3">>

ServiceNames == {AmazonS3, S3, AmazonEC2}

Days == <<"2025/09/01", "2025/09/02">>

-----------------------------------------------------------------------------
(* Exact fractions *)

Abs(x) == IF x < 0 THEN -x ELSE x

RECURSIVE GCD(_, _)
GCD(a, b) == IF b = 0 THEN a ELSE GCD(b, a % b)

\* n / d in lowest terms, the denominator positive (d # 0).
Frac(n, d) ==
    LET g == GCD(Abs(n), Abs(d))
        s == IF d < 0 THEN -1 ELSE 1
    IN  [num |-> (s * n) \div g, den |-> (s * d) \div g]

FromInt(n) == [num |-> n, den |-> 1]

Less(a, b) == a.num * b.den < b.num * a.den

Half(a) == Frac(a.num, a.den * 2)

Plus(a, b) == Frac(a.num * b.den + b.num * a.den, a.den * b.den)

RECURSIVE SumFracs(_)
SumFracs(s) == IF s = <<>> THEN FromInt(0) ELSE Plus(Head(s), SumFracs(Tail(s)))

MaxFracs(s) == CHOOSE x \in {s[i] : i \in DOMAIN s} : \A i \in DOMAIN s : ~Less(x, s[i])

\* int(x): the fraction cut off towards zero.
Trunc(x) == IF x.num >= 0 THEN x.num \div x.den ELSE -((-x.num) \div x.den)

-----------------------------------------------------------------------------
(* Sequences *)

RECURSIVE SumSeq(_)
SumSeq(s) == IF s = <<>> THEN 0 ELSE Head(s) + SumSeq(Tail(s))

MaxSeq(s) == CHOOSE x \in {s[i] : i \in DOMAIN s} : \A i \in DOMAIN s : s[i] <= x

MinSeq(s) == CHOOSE x \in {s[i] : i \in DOMAIN s} : \A i \in DOMAIN s : x <= s[i]

Range(s) == {s[i] : i \in DOMAIN s}

EmptyMap == <<>>

-----------------------------------------------------------------------------
(* The input table.  A row is the dict csv.DictReader yields: its keys in   *)
(* header order and the cell under each key.                                *)

FixedColumns == <<"service", "item", "description">>

MakeRow(months, service, item, cells) ==
    [keys |-> FixedColumns \o months,
     vals |-> [col \in Range(FixedColumns) \cup Range(months) |->
                 IF col = "service" THEN service
                 ELSE IF col = "item" THEN item
                 ELSE IF col = "description" THEN "text"
                 ELSE cells[CHOOSE i \in DOMAIN months : months[i] = col]]]

Cells(amounts) == {<<>>} \cup {<<a>> : a \in amounts}

Headers == {SubSeq(MonthLabels, 1, m) : m \in 1..Len(MonthLabels)}

RowsOver(months, names, cells) ==
    {MakeRow(months, s, i, c) :
        s \in names, i \in ItemNames, c \in [DOMAIN months -> cells]}

TablesOver(headers, names, cells, n) ==
    UNION {UNION {[1..k -> RowsOver(h, names, cells)] : k \in 1..n} : h \in headers}

\* One-row tables: every header, every amount, empty cells anywhere.
FineTables == TablesOver(Headers, {AmazonS3}, Cells(Amounts), 1)

\* Tables of several rows and two services over two months.
CoarseTables ==
    TablesOver({SubSeq(MonthLabels, 1, 2)}, {AmazonS3, S3}, Cells(CoarseAmounts), MaxRows)

-----------------------------------------------------------------------------
(* analyze_service_characteristics *)

RapidGrowth == "rapid growth trend (increase of 20% or more)"
Growth == "growth trend (increase of 5% or more)"
CostReduction == "cost reduction trend (reduction of 10% or more)"
Stable == "stable cost"
HighVolatility == "high volatility"
LowVolatility == "low volatility"

TrendLabels == {RapidGrowth, Growth, CostReduction, Stable}
VolatilityLabels == {HighVolatility, LowVolatility}

\* '費用（' in col and '）' in col
IsMonthColumn(col) == col \in Range(MonthLabels)

\* The filter forgotten: every row of the table.
ServiceDataUnfiltered(rows, service_name) == rows

\* [row for row in self.data if row['サービス'] == service_name]
ServiceData(rows, service_name) ==
    SelectSeq(rows, LAMBDA row : row.vals["service"] = service_name)

\* [col for col in service_data[0].keys() if ...]
month_columns(service_data) == SelectSeq(service_data[1].keys, IsMonthColumn)

\* [float(row[col]) for col in month_columns if row[col]]
RECURSIVE costs_of(_, _)
costs_of(row, cols) ==
    IF cols = <<>> THEN <<>>
    ELSE (IF row.vals[Head(cols)] # <<>> THEN <<row.vals[Head(cols)][1]>> ELSE <<>>)
         \o costs_of(row, Tail(cols))

\* ((costs[-1] - costs[0]) / costs[0]) * 100 if costs[0] != 0 else 0
growth_rate(costs) ==
    IF costs[1] # 0
    THEN Frac((costs[Len(costs)] - costs[1]) * 100, costs[1])
    ELSE FromInt(0)

\* The record stored for a row whose costs are `costs`.
trend_record(costs) ==
    [growth_rate |-> growth_rate(costs),
     average     |-> Frac(SumSeq(costs), Len(costs)),
     max         |-> MaxSeq(costs),
     min         |-> MinSeq(costs),
     volatility  |-> MaxSeq(costs) - MinSeq(costs)]

\* if len(costs) > 0
HasTrendFromOne(costs) == Len(costs) > 0

\* if len(costs) > 1
HasTrend(costs) == Len(costs) > 1

\* The loop over service_data: cost_trends after its first k rows.
RECURSIVE cost_trends(_, _, _)
cost_trends(service_data, cols, k) ==
    IF k = 0 THEN EmptyMap
    ELSE LET before == cost_trends(service_data, cols, k - 1)
             row    == service_data[k]
             costs  == costs_of(row, cols)
         IN  IF HasTrend(costs)
             THEN (row.vals["item"] :> trend_record(costs)) @@ before
             ELSE before

\* all_data['growth_rate'] >= 20
IsRapidInclusive(g) == ~Less(g, FromInt(20))

\* all_data['growth_rate'] > 20
IsRapid(g) == Less(FromInt(20), g)
\* all_data['growth_rate'] > 5
IsGrowth(g) == Less(FromInt(5), g)
\* all_data['growth_rate'] < -10
IsReduction(g) == Less(g, FromInt(-10))

trend_label(all_data) ==
    IF IsRapid(all_data.growth_rate) THEN RapidGrowth
    ELSE IF IsGrowth(all_data.growth_rate) THEN Growth
    ELSE IF IsReduction(all_data.growth_rate) THEN CostReduction
    ELSE Stable

\* all_data['volatility'] >= all_data['average'] * 0.5
IsHighVolatilityInclusive(all_data) ==
    ~Less(FromInt(all_data.volatility), Half(all_data.average))

\* all_data['volatility'] > all_data['average'] * 0.5
IsHighVolatility(all_data) == Less(Half(all_data.average), FromInt(all_data.volatility))

volatility_label(all_data) ==
    IF IsHighVolatility(all_data) THEN HighVolatility ELSE LowVolatility

\* all_data = analysis['cost_trends'].get('All', {}); if all_data: ...
characteristics(trends) ==
    IF "All" \in DOMAIN trends
    THEN <<trend_label(trends["All"]), volatility_label(trends["All"])>>
    ELSE <<>>

analyze_service_characteristics(rows, service_name) ==
    LET service_data == ServiceData(rows, service_name)
        trends == cost_trends(service_data, month_columns(service_data),
                              Len(service_data))
    IN  IF service_data = <<>> THEN EmptyMap
        ELSE [total_items     |-> Len(service_data),
              cost_trends     |-> trends,
              characteristics |-> characteristics(trends)]

-----------------------------------------------------------------------------
(* Text *)

UpperCase == <<"A", "B", "C", "D", "E", "F", "G", "H", "I", "J", "K", "L", "M",
               "N", "O", "P", "Q", "R", "S", "T", "U", "V", "W", "X", "Y", "Z">>
LowerCase == <<"a", "b", "c", "d", "e", "f", "g", "h", "i", "j", "k", "l", "m",
               "n", "o", "p", "q", "r", "s", "t", "u", "v", "w", "x", "y", "z">>

\* str.lower()
Lower(s) ==
    [k \in DOMAIN s |->
        IF s[k] \in Range(UpperCase)
        THEN LowerCase[CHOOSE n \in DOMAIN UpperCase : UpperCase[n] = s[k]]
        ELSE s[k]]

\* str.replace(old, new): every occurrence of old, left to right.
RECURSIVE Replace(_, _, _)
Replace(s, old, new) ==
    IF Len(s) < Len(old) THEN s
    ELSE IF SubSeq(s, 1, Len(old)) = old
         THEN new \o Replace(SubSeq(s, Len(old) + 1, Len(s)), old, new)
         ELSE <<Head(s)>> \o Replace(Tail(s), old, new)

\* f"{service_name.replace(' ', '_').replace('Amazon_', '').lower()}.md"
Filename(service_name) ==
    Lower(Replace(Replace(service_name, <<" ">>, <<"_">>),
                  <<"A", "m", "a", "z", "o", "n", "_">>, <<>>))
    \o <<".", "m", "d">>

-----------------------------------------------------------------------------
(* Number formatting *)

\* round(n / d) to the nearest integer, ties to even (d > 0).
RoundHalfEven(n, d) ==
    LET q == n \div d
        r == n - q * d
    IN  IF 2 * r < d THEN q
        ELSE IF 2 * r > d THEN q + 1
        ELSE IF q % 2 = 0 THEN q ELSE q + 1

\* f"{x:.2f}": the hundredths printed.
Fmt2(x) == RoundHalfEven(x.num * 100, x.den)

\* f"{x:+.1f}": the tenths printed.
Fmt1(x) == RoundHalfEven(x.num * 10, x.den)

-----------------------------------------------------------------------------
(* generate_optimization_suggestions *)

AmazonRDS == <<"A", "m", "a", "z", "o", "n", " ", "R", "D", "S">>
AmazonCloudFront == <<"A", "m", "a", "z", "o", "n", " ", "C", "l", "o", "u", "d",
                      "F", "r", "o", "n", "t">>
AmazonLambda == <<"A", "m", "a", "z", "o", "n", " ", "L", "a", "m", "b", "d", "a">>

service_suggestions ==
    (AmazonS3 :> <<"S3: lifecycle policy to Glacier", "S3: Intelligent Tiering",
                   "S3: remove duplicate data", "S3: review cross-region replication">>)
    @@ (AmazonEC2 :> <<"EC2: buy reserved instances", "EC2: resize idle instances",
                       "EC2: consider spot instances", "EC2: release unused Elastic IPs">>)
    @@ (AmazonRDS :> <<"RDS: resize instances", "RDS: review backup retention",
                       "RDS: review read replicas", "RDS: consider reserved instances">>)
    @@ (AmazonCloudFront :> <<"CloudFront: tune caching", "CloudFront: review price class",
                              "CloudFront: evaluate Origin Shield",
                              "CloudFront: delete unused distributions">>)
    @@ (AmazonLambda :> <<"Lambda: tune memory and duration", "Lambda: remove unneeded runs",
                          "Lambda: review provisioned concurrency",
                          "Lambda: consolidate functions">>)

UrgentReview == "rapid cost increase: urgent review of usage and resource placement"

\* return suggestions[:4]
MaxSuggestions == 4

\* all_trends.get('growth_rate', 0) > 20
GrowthCallsForReview(trends) ==
    "All" \in DOMAIN trends /\ Less(FromInt(20), trends["All"].growth_rate)

generate_optimization_suggestions(service_name, an) ==
    LET own == IF service_name \in DOMAIN service_suggestions
               THEN service_suggestions[service_name] ELSE <<>>
        suggestions == IF GrowthCallsForReview(an.cost_trends)
                       THEN Append(own, UrgentReview) ELSE own
    IN  SubSeq(suggestions, 1, IF Len(suggestions) < MaxSuggestions
                               THEN Len(suggestions) ELSE MaxSuggestions)

-----------------------------------------------------------------------------
(* create_mermaid_chart *)

\* float(cell) of a cell that is not empty: <<n>> is the text of the whole
\* amount n, <<n, t>> the text of the decimal amount n.t.
Float(cell) ==
    IF Len(cell) = 1 THEN FromInt(cell[1]) ELSE Frac(cell[1] * 10 + cell[2], 10)

\* float(row[month_col]) if row[month_col] else 0, for every month column
RECURSIVE padded_costs(_, _)
padded_costs(row, cols) ==
    IF cols = <<>> THEN <<>>
    ELSE <<IF row.vals[Head(cols)] # <<>> THEN Float(row.vals[Head(cols)])
           ELSE FromInt(0)>>
         \o padded_costs(row, Tail(cols))

chart_data(service_data, cols) ==
    [k \in DOMAIN service_data |->
        LET costs == padded_costs(service_data[k], cols)
        IN  [name  |-> service_data[k].vals["item"],
             costs |-> costs,
             avg   |-> IF costs # <<>>
                       THEN LET total == SumFracs(costs)
                            IN  Frac(total.num, total.den * Len(costs))
                       ELSE FromInt(0)]]

\* x put into a list sorted by avg, highest first, behind its equals.
RECURSIVE InsertByAvg(_, _)
InsertByAvg(x, sorted) ==
    IF sorted = <<>> THEN <<x>>
    ELSE IF Less(Head(sorted).avg, x.avg) THEN <<x>> \o sorted
         ELSE <<Head(sorted)>> \o InsertByAvg(x, Tail(sorted))

\* other_items.sort(key=lambda x: x['avg'], reverse=True)
RECURSIVE SortByAvg(_, _)
SortByAvg(items, k) ==
    IF k = 0 THEN <<>> ELSE InsertByAvg(items[k], SortByAvg(items, k - 1))

Take(s, n) == SubSeq(s, 1, IF Len(s) < n THEN Len(s) ELSE n)

\* The selection with other_items left in the order of the table.
sorted_data_unsorted(service_data, cols) ==
    LET items  == chart_data(service_data, cols)
        alls   == {k \in DOMAIN items : items[k].name = "All"}
        others == SelectSeq(items, LAMBDA item : item.name # "All")
    IN  IF alls # {}
        THEN <<items[CHOOSE k \in alls : \A j \in alls : j <= k]>> \o Take(others, 3)
        ELSE Take(others, 4)

\* [all_item] + other_items[:3] if all_item else other_items[:4]
sorted_data(service_data, cols) ==
    LET items  == chart_data(service_data, cols)
        alls   == {k \in DOMAIN items : items[k].name = "All"}
        others == SelectSeq(items, LAMBDA item : item.name # "All")
        sorted == SortByAvg(others, Len(others))
    IN  IF alls # {}
        THEN <<items[CHOOSE k \in alls : \A j \in alls : j <= k]>> \o Take(sorted, 3)
        ELSE Take(sorted, 4)

\* int(max_cost * 1.1)
y_max(series) ==
    LET max_cost == MaxFracs([k \in DOMAIN series |-> MaxFracs(series[k].costs)])
    IN  Trunc(Frac(max_cost.num * 11, max_cost.den * 10))

create_mermaid_chart(service_data, cols) ==
    LET series == sorted_data(service_data, cols)
    IN  [chart  |-> [x_axis |-> cols,
                     y_axis |-> <<0, y_max(series)>>,
                     lines  |-> [k \in DOMAIN series |->
                                    [name  |-> series[k].name,
                                     costs |-> [m \in DOMAIN series[k].costs |->
                                                   Fmt2(series[k].costs[m])]]]],
         legend |-> [k \in DOMAIN series |->
                        [name |-> series[k].name, avg |-> Fmt2(series[k].avg)]]]

-----------------------------------------------------------------------------
(* generate_service_markdown, in the order it builds markdown_content *)

\* The header, the summary of characteristics and the item detail table.
markdown_head(rows, service_name, an, current_date) ==
    LET service_data == ServiceData(rows, service_name)
    IN  [title           |-> service_name,
         date            |-> current_date,
         characteristics |-> an.characteristics,
         details         |->
             [k \in DOMAIN service_data |->
                 LET item == service_data[k].vals["item"]
                     has  == item \in DOMAIN an.cost_trends
                 IN  [item        |-> item,
                      description |-> service_data[k].vals["description"],
                      average     |-> IF has THEN Fmt2(an.cost_trends[item].average) ELSE 0,
                      growth_rate |-> IF has THEN Fmt1(an.cost_trends[item].growth_rate) ELSE 0,
                      volatility  |-> IF has THEN Fmt2(FromInt(an.cost_trends[item].volatility))
                                      ELSE 0]]]

\* The monthly table, the chart and its legend.
markdown_body(rows, service_name) ==
    LET service_data == ServiceData(rows, service_name)
        cols == month_columns(service_data)
    IN  [months  |-> cols,
         monthly |-> [k \in DOMAIN service_data |->
                        [item  |-> service_data[k].vals["item"],
                         costs |-> [m \in DOMAIN cols |->
                                      Fmt2(padded_costs(service_data[k], cols)[m])]]]]
        @@ create_mermaid_chart(service_data, cols)

\* open(output_path, 'a'): the text is added to what the file holds.
appended(dir, filename, text) ==
    (filename :> ((IF filename \in DOMAIN dir THEN dir[filename] ELSE <<>>) \o <<text>>))
    @@ dir

\* open(output_path, 'w'); f.write(markdown_content)
written(dir, filename, text) == (filename :> <<text>>) @@ dir

-----------------------------------------------------------------------------
(* main(): the constructor, run_analysis, and a second execution of main()   *)

\* self.services.add(row['サービス']) for every row
ServicesOf(rows) == {rows[i].vals["service"] : i \in DOMAIN rows}

\* Tables of several rows and three services, no cell empty.
PipelineTables ==
    TablesOver({SubSeq(MonthLabels, 1, 2)}, ServiceNames,
               {<<a>> : a \in CoarseAmounts}, MaxRows)

\* The same over the two services whose reports share a file name.
RerunTables ==
    TablesOver({SubSeq(MonthLabels, 1, 2)}, {AmazonS3, S3},
               {<<a>> : a \in CoarseAmounts}, MaxRows)

Started ==
    /\ today = Days[1]
    /\ pc = "start"
    /\ run = 1
    /\ data = <<>>
    /\ services = {}
    /\ todo = {}
    /\ cur = <<>>
    /\ analysis = EmptyMap
    /\ markdown = EmptyMap
    /\ files = EmptyMap
    /\ log = <<>>
    /\ iterated = <<>>
    /\ first = EmptyMap
    /\ result = <<>>

\* A row of a table whose header has no service column.
WithoutService(row) ==
    [keys |-> SelectSeq(row.keys, LAMBDA col : col # "service"),
     vals |-> [col \in DOMAIN row.vals \ {"service"} |-> row.vals[col]]]

\* Tables whose header has no service column.
HeadlessTables ==
    {[k \in DOMAIN rows |-> WithoutService(rows[k])] :
        rows \in TablesOver({SubSeq(MonthLabels, 1, 2)}, {AmazonS3}, {<<20>>}, MaxRows)}

\* The input file holds a table, with or without the service column, or it
\* does not exist; the output directory has not been created yet.
Inputs(tables) ==
    /\ exists \in [csv_path : BOOLEAN, output_docs_path : {FALSE}]
    /\ IF exists.csv_path THEN csv \in tables \cup HeadlessTables ELSE csv = <<>>

Init == Inputs(PipelineTables) /\ Started

InitTwice == Inputs(RerunTables) /\ Started

Logged(step, service_name) == Append(log, [step |-> step, service |-> service_name])

\* The steps of one iteration with the loop head swapped in before the body:
\* the suggestions looked up before any Markdown is rendered.
StepAfterSuggestFirst(p) ==
    CASE p = "trends"   -> "classify"
      [] p = "classify" -> "suggest"
      [] p = "suggest"  -> "head"
      [] p = "head"     -> "body"
      [] p = "body"     -> "write"
      [] p = "write"    -> "loop"

\* The order of the steps of one iteration of the loop of run_analysis.
StepAfter(p) ==
    CASE p = "trends"   -> "classify"
      [] p = "classify" -> "head"
      [] p = "head"     -> "suggest"
      [] p = "suggest"  -> "body"
      [] p = "body"     -> "write"
      [] p = "write"    -> "loop"

\* open(self.csv_path) succeeds and every row has the service column.
Loadable == exists.csv_path /\ \A i \in DOMAIN csv : "service" \in DOMAIN csv[i].vals

\* self.output_docs_path.mkdir(parents=True, exist_ok=True)
mkdir == [exists EXCEPT !.output_docs_path = TRUE]

\* __init__ and load_data: the rows are read and the services collected.
LoadData ==
    /\ pc = "start"
    /\ Loadable
    /\ exists' = mkdir
    /\ data' = csv
    /\ services' = ServicesOf(csv)
    /\ todo' = ServicesOf(csv)
    /\ log' = Logged("load", <<>>)
    /\ pc' = "loop"
    /\ UNCHANGED <<csv, today, run, cur, analysis, markdown, files, iterated,
                   first, result>>

\* The handler of load_data with the raise left out: the constructor returns.
LoadFailsSilently ==
    /\ pc = "start"
    /\ ~Loadable
    /\ exists' = mkdir
    /\ data' = IF exists.csv_path THEN <<csv[1]>> ELSE <<>>
    /\ log' = Logged("load_error", <<>>)
    /\ pc' = "loop"
    /\ UNCHANGED <<csv, today, run, services, todo, cur, analysis, markdown,
                   files, iterated, first, result>>

\* __init__ and load_data when open() or row['サービス'] raises: the first row
\* was appended before its service was looked up, the error is printed and
\* raised again, and main() ends with it.
LoadFails ==
    /\ pc = "start"
    /\ ~Loadable
    /\ exists' = mkdir
    /\ data' = IF exists.csv_path THEN <<csv[1]>> ELSE <<>>
    /\ log' = Logged("load_error", <<>>)
    /\ pc' = "failed"
    /\ UNCHANGED <<csv, today, run, services, todo, cur, analysis, markdown,
                   files, iterated, first, result>>

\* for service_name in self.services: a set, iterated in any order.
NextService ==
    /\ pc = "loop"
    /\ \E service_name \in todo :
        /\ cur' = service_name
        /\ todo' = todo \ {service_name}
    /\ pc' = "trends"
    /\ UNCHANGED <<csv, exists, today, run, data, services, analysis, markdown, files,
                   log, iterated, first, result>>

\* analyze_service_characteristics, the loop over the service's rows.
ComputeTrends ==
    /\ pc = "trends"
    /\ LET service_data == ServiceData(data, cur)
       IN  analysis' = [total_items     |-> Len(service_data),
                        cost_trends     |-> cost_trends(service_data,
                                                month_columns(service_data),
                                                Len(service_data)),
                        characteristics |-> <<>>]
    /\ log' = Logged("trends", cur)
    /\ pc' = StepAfter(pc)
    /\ UNCHANGED <<csv, exists, today, run, data, services, todo, cur, markdown, files,
                   iterated, first, result>>

\* analyze_service_characteristics, the labels.
Classify ==
    /\ pc = "classify"
    /\ analysis' = [analysis EXCEPT
                        !.characteristics = characteristics(analysis.cost_trends)]
    /\ log' = Logged("classify", cur)
    /\ pc' = StepAfter(pc)
    /\ UNCHANGED <<csv, exists, today, run, data, services, todo, cur, markdown, files,
                   iterated, first, result>>

\* generate_service_markdown up to the item detail table.
RenderHead ==
    /\ pc = "head"
    /\ markdown' = markdown_head(data, cur, analysis, today)
    /\ iterated' = Append(iterated, <<cur, today>>)
    /\ log' = Logged("head", cur)
    /\ pc' = StepAfter(pc)
    /\ UNCHANGED <<csv, exists, today, run, data, services, todo, cur, analysis, files,
                   first, result>>

\* generate_service_markdown calls generate_optimization_suggestions.
Suggest ==
    /\ pc = "suggest"
    /\ markdown' = [suggestions |-> generate_optimization_suggestions(cur, analysis)]
                   @@ markdown
    /\ log' = Logged("suggest", cur)
    /\ pc' = StepAfter(pc)
    /\ UNCHANGED <<csv, exists, today, run, data, services, todo, cur, analysis, files,
                   iterated, first, result>>

\* generate_service_markdown from the monthly table to the footer.
RenderBody ==
    /\ pc = "body"
    /\ markdown' = markdown_body(data, cur) @@ markdown
    /\ log' = Logged("body", cur)
    /\ pc' = StepAfter(pc)
    /\ UNCHANGED <<csv, exists, today, run, data, services, todo, cur, analysis, files,
                   iterated, first, result>>

\* generate_service_markdown writes the file.
WriteFile ==
    /\ pc = "write"
    /\ files' = written(files, Filename(cur), markdown)
    /\ log' = Logged("write", cur)
    /\ pc' = StepAfter(pc)
    /\ UNCHANGED <<csv, exists, today, run, data, services, todo, cur, analysis, markdown,
                   iterated, first, result>>

\* run_analysis returns.
Finish ==
    /\ pc = "loop"
    /\ todo = {}
    /\ pc' = "done"
    /\ UNCHANGED <<csv, exists, today, run, data, services, todo, cur, analysis, markdown,
                   files, log, iterated, first, result>>

\* Midnight passes.  The date is read once per report, at the start of
\* generate_service_markdown, so the clock is moved between iterations and
\* between executions only.
Tick ==
    /\ pc \in {"loop", "done"}
    /\ today = Days[1]
    /\ today' = Days[2]
    /\ UNCHANGED <<csv, exists, pc, run, data, services, todo, cur, analysis, markdown,
                   files, log, iterated, first, result>>

\* main() is executed again on the same input file and output directory; the
\* input file may have been removed in between.
Rerun ==
    /\ pc = "done"
    /\ exists' \in {exists, [exists EXCEPT !.csv_path = FALSE]}
    /\ run = 1
    /\ run' = 2
    /\ first' = [files |-> files, iterated |-> iterated]
    /\ pc' = "start"
    /\ data' = <<>>
    /\ services' = {}
    /\ cur' = <<>>
    /\ analysis' = EmptyMap
    /\ markdown' = EmptyMap
    /\ log' = <<>>
    /\ iterated' = <<>>
    /\ UNCHANGED <<csv, today, todo, files, result>>

\* One execution of main().
Next ==
    \/ LoadData
    \/ LoadFails
    \/ NextService
    \/ ComputeTrends
    \/ Classify
    \/ RenderHead
    \/ Suggest
    \/ RenderBody
    \/ WriteFile
    \/ Finish

Spec == Init /\ [][Next]_vars

\* Two executions of main() on the same input, the clock running.
NextTwice ==
    \/ Next
    \/ Tick
    \/ Rerun

SpecTwice == InitTwice /\ [][NextTwice]_vars

-----------------------------------------------------------------------------
(* The analyzer on its own: a table is loaded, analyze_service_characteristics *)
(* is called on it, and the table may be edited by one row and analysed again *)

Idle ==
    /\ today = Days[1]
    /\ run = 1
    /\ todo = {}
    /\ cur = <<>>
    /\ analysis = EmptyMap
    /\ markdown = EmptyMap
    /\ files = EmptyMap
    /\ log = <<>>
    /\ iterated = <<>>
    /\ first = EmptyMap
    /\ exists = [csv_path |-> TRUE, output_docs_path |-> TRUE]

InitAnalyze ==
    /\ csv \in FineTables \cup CoarseTables
    /\ data = csv
    /\ services = ServicesOf(csv)
    /\ pc = "loaded"
    /\ result = <<>>
    /\ Idle

AnalyzeService(service_name) ==
    /\ result' = <<[service_name |-> service_name,
                    analysis |-> analyze_service_characteristics(data, service_name),
                    after_edit |-> FALSE]>>
    /\ UNCHANGED <<csv, exists, today, pc, run, data, services, todo, cur, analysis,
                   markdown, files, log, iterated, first>>

\* The values an edit can put under column `col`.
ValuesOf(col) ==
    IF col = "service" THEN {AmazonS3, S3}
    ELSE IF col = "item" THEN ItemNames
    ELSE IF col = "description" THEN {"text"}
    ELSE Cells(CoarseAmounts)

\* The rows that differ from `row` in at most one field.
FieldEdits(row) ==
    UNION {{[row EXCEPT !.vals[col] = v] : v \in ValuesOf(col)} : col \in Range(row.keys)}

InsertAt(rows, i, r) == SubSeq(rows, 1, i - 1) \o <<r>> \o SubSeq(rows, i, Len(rows))

RemoveAt(rows, i) == SubSeq(rows, 1, i - 1) \o SubSeq(rows, i + 1, Len(rows))

\* The tables one edit away from `rows`: one field of a row changed, a row
\* removed, a row inserted anywhere.
OneRowEdits(rows) ==
    LET pool == RowsOver(month_columns(rows), {AmazonS3, S3}, Cells(CoarseAmounts))
    IN  UNION {{[rows EXCEPT ![i] = r] : r \in FieldEdits(rows[i])} : i \in DOMAIN rows}
        \cup {RemoveAt(rows, i) : i \in {j \in DOMAIN rows : Len(rows) > 1}}
        \cup {InsertAt(rows, i, r) :
                i \in {j \in 1..(Len(rows) + 1) : Len(rows) < MaxRows}, r \in pool}

\* The input is edited by one row and the same service is analysed again.
EditAndAnalyze ==
    /\ result # <<>>
    /\ csv \in CoarseTables
    /\ \E edited \in OneRowEdits(csv) \ {csv} :
        /\ csv' = edited
        /\ data' = edited
        /\ services' = ServicesOf(edited)
        /\ result' = <<[service_name |-> result[1].service_name,
                        analysis |-> analyze_service_characteristics(
                                         edited, result[1].service_name),
                        after_edit |-> TRUE]>>
    /\ UNCHANGED <<exists, today, pc, run, todo, cur, analysis, markdown, files, log,
                   iterated, first>>

NextAnalyze ==
    \/ \E service_name \in {AmazonS3, S3} : result = <<>> /\ AnalyzeService(service_name)
    \/ EditAndAnalyze

SpecAnalyze == InitAnalyze /\ [][NextAnalyze]_vars

-----------------------------------------------------------------------------
(* The chart on its own: a table of one service is loaded and                *)
(* create_mermaid_chart is called on its rows, as generate_service_markdown  *)
(* calls it.                                                                 *)

MaxItems == 5

\* An empty cell, "0.5", "2" and "12".
ChartCells == {<<>>, <<0, 5>>, <<2>>, <<12>>}

\* Tables of up to MaxItems rows over one month without empty cells, and of
\* up to MaxRows rows over two months.
ChartTables ==
    TablesOver({SubSeq(MonthLabels, 1, 1)}, {AmazonS3}, ChartCells \ {<<>>}, MaxItems)
    \cup TablesOver({SubSeq(MonthLabels, 1, 2)}, {AmazonS3}, ChartCells, MaxRows)

InitChart ==
    /\ csv \in ChartTables
    /\ data = csv
    /\ services = ServicesOf(csv)
    /\ pc = "loaded"
    /\ result = <<>>
    /\ Idle

DrawChart(service_name) ==
    /\ result = <<>>
    /\ LET service_data == ServiceData(data, service_name)
       IN  result' = <<[service_name |-> service_name,
                        drawn |-> create_mermaid_chart(service_data,
                                                       month_columns(service_data))]>>
    /\ UNCHANGED <<csv, exists, today, pc, run, data, services, todo, cur, analysis,
                   markdown, files, log, iterated, first>>

NextChart == \E service_name \in services : DrawChart(service_name)

SpecChart == InitChart /\ [][NextChart]_vars

-----------------------------------------------------------------------------
(* What the claims speak of, stated from the table and not from the code    *)

Analysed == result # <<>> /\ result[1].analysis # EmptyMap

TheService == result[1].service_name

TheTrends == result[1].analysis.cost_trends

TheCharacteristics == result[1].analysis.characteristics

\* The positions in self.data of the analysed service's rows.
RowsOfService == {i \in DOMAIN data : data[i].vals["service"] = TheService}

\* The month columns of the table, in header order.
Window == SelectSeq(data[1].keys, LAMBDA col : col \in Range(MonthLabels))

\* The amount of a month of a row: an empty cell counts as 0, as in the
\* monthly table of the report.
AmountAt(row, col) == IF row.vals[col] = <<>> THEN 0 ELSE row.vals[col][1]

WindowAmounts(row) == [k \in DOMAIN Window |-> AmountAt(row, Window[k])]

\* The positions of the window whose cell is not empty.
Filled(row) == {k \in DOMAIN Window : row.vals[Window[k]] # <<>>}

FirstFilled(row) == CHOOSE k \in Filled(row) : \A j \in Filled(row) : k <= j

LastFilled(row) == CHOOSE k \in Filled(row) : \A j \in Filled(row) : j <= k

SumOver(row, K) ==
    LET RECURSIVE Sum(_)
        Sum(S) == IF S = {} THEN 0
                  ELSE LET k == CHOOSE x \in S : TRUE
                       IN  AmountAt(row, Window[k]) + Sum(S \ {k})
    IN  Sum(K)

GrowthBetween(a, b) == IF a = 0 THEN FromInt(0) ELSE Frac((b - a) * 100, a)

Exceeds(g, n) == g.num > n * g.den

Below(g, n) == g.num < n * g.den

-----------------------------------------------------------------------------
(* C1 *)

\* C1: every recorded growth_rate is (last - first) / first * 100 over the
\* first and the last month of the window of a row of that item, 0 when first
\* is 0.
C1_GrowthOverWindow ==
    Analysed =>
        \A item \in DOMAIN TheTrends :
            \E i \in RowsOfService :
                /\ data[i].vals["item"] = item
                /\ TheTrends[item].growth_rate =
                       GrowthBetween(AmountAt(data[i], Window[1]),
                                     AmountAt(data[i], Window[Len(Window)]))

(* C2 *)

\* C2: every recorded average is the sum of the row's monthly amounts over the
\* number of month columns, max and min are the extremes of the window and
\* volatility is max - min, also for rows with empty cells.
C2_ReductionOverWindow ==
    Analysed =>
        \A item \in DOMAIN TheTrends :
            \E i \in RowsOfService :
                LET w == WindowAmounts(data[i])
                IN  /\ data[i].vals["item"] = item
                    /\ TheTrends[item].average = Frac(SumSeq(w), Len(Window))
                    /\ TheTrends[item].max = MaxSeq(w)
                    /\ TheTrends[item].min = MinSeq(w)
                    /\ TheTrends[item].volatility = MaxSeq(w) - MinSeq(w)

(* C3 *)

NumberOf(labels, seq) == Cardinality({k \in DOMAIN seq : seq[k] \in labels})

\* C3: with metrics for 'All', exactly one trend label is emitted, it comes
\* first, and it is rapid growth when g > 20, else growth when g > 5, else
\* cost reduction when g < -10, else stable.
C3_TrendLabelByThresholds ==
    (Analysed /\ "All" \in DOMAIN TheTrends) =>
        LET g == TheTrends["All"].growth_rate
        IN  /\ NumberOf(TrendLabels, TheCharacteristics) = 1
            /\ TheCharacteristics[1] \in TrendLabels
            /\ Exceeds(g, 20) => TheCharacteristics[1] = RapidGrowth
            /\ (~Exceeds(g, 20) /\ Exceeds(g, 5)) => TheCharacteristics[1] = Growth
            /\ (~Exceeds(g, 5) /\ Below(g, -10)) => TheCharacteristics[1] = CostReduction
            /\ (~Exceeds(g, 5) /\ ~Below(g, -10)) => TheCharacteristics[1] = Stable

\* An 'All' row that grew by exactly 20% and is labelled growth, not rapid growth.
C3_Witness ==
    /\ Analysed
    /\ "All" \in DOMAIN TheTrends
    /\ TheTrends["All"].growth_rate = FromInt(20)
    /\ TheCharacteristics[1] = Growth

(* C4 *)

\* C4: with metrics for 'All', exactly one volatility label follows the trend
\* label, high exactly when volatility > 0.5 * average; without metrics for
\* 'All' the characteristics are empty.
C4_VolatilityLabel ==
    Analysed =>
        IF "All" \in DOMAIN TheTrends
        THEN LET m == TheTrends["All"]
             IN  /\ Len(TheCharacteristics) = 2
                 /\ NumberOf(VolatilityLabels, TheCharacteristics) = 1
                 /\ TheCharacteristics[2] \in VolatilityLabels
                 /\ TheCharacteristics[2] = HighVolatility
                        <=> 2 * m.volatility * m.average.den > m.average.num
        ELSE TheCharacteristics = <<>>

\* An 'All' row whose costs are all 0, labelled low volatility.
C4_Witness ==
    /\ Analysed
    /\ "All" \in DOMAIN TheTrends
    /\ TheTrends["All"].max = 0
    /\ TheTrends["All"].min = 0
    /\ TheCharacteristics[2] = LowVolatility

(* C5 *)

\* analysis.get('characteristics'), which is empty for the {} of a service
\* without rows too.
CharacteristicsOf(a) == IF a = EmptyMap THEN <<>> ELSE a.characteristics

\* The 'All' rows of a service, in table order.
AllRowsOf(rows, service_name) ==
    SelectSeq(rows, LAMBDA row : row.vals["service"] = service_name
                                 /\ row.vals["item"] = "All")

\* C5: when the table is edited and the same service analysed again, the
\* characteristics are unchanged whenever the service's 'All' rows are: they
\* depend on nothing else in the table.
C5_OnlyAllRowMatters ==
    [][(/\ result # <<>>
        /\ result' # <<>>
        /\ result'[1].service_name = result[1].service_name
        /\ AllRowsOf(data', result[1].service_name)
               = AllRowsOf(data, result[1].service_name))
       => CharacteristicsOf(result'[1].analysis) = CharacteristicsOf(result[1].analysis)]_vars

\* After an edit and a second analysis: the service has labels and the table
\* holds, besides its 'All' row, a row of another service.
C5_Witness ==
    /\ Analysed
    /\ result[1].after_edit
    /\ TheCharacteristics # <<>>
    /\ \E i \in DOMAIN data : data[i].vals["service"] # TheService

(* C8 *)

\* The record of a row computed over its non-empty cells.
RecordOverFilled(row) ==
    LET K == Filled(row)
        amounts == {AmountAt(row, Window[k]) : k \in K}
        hi == CHOOSE x \in amounts : \A y \in amounts : y <= x
        lo == CHOOSE x \in amounts : \A y \in amounts : x <= y
    IN  [growth_rate |-> GrowthBetween(AmountAt(row, Window[FirstFilled(row)]),
                                       AmountAt(row, Window[LastFilled(row)])),
         average     |-> Frac(SumOver(row, K), Cardinality(K)),
         max         |-> hi,
         min         |-> lo,
         volatility  |-> hi - lo]

\* C8 as stated: every row of the analysed service has a record in cost_trends,
\* computed from that row.
C8_RecordForEveryRow ==
    Analysed =>
        \A i \in RowsOfService :
            /\ data[i].vals["item"] \in DOMAIN TheTrends
            /\ TheTrends[data[i].vals["item"]] = RecordOverFilled(data[i])

\* The rows of the analysed service named `item` with two or more non-empty
\* month cells.
Qualifying(item) ==
    {i \in RowsOfService : data[i].vals["item"] = item
                           /\ Cardinality(Filled(data[i])) >= 2}

\* C8 amended: an item has a record exactly when one of its rows has two or
\* more non-empty month cells, and the record is that of the last such row,
\* computed over its non-empty cells.
C8_RecordOfLastQualifyingRow ==
    Analysed =>
        /\ DOMAIN TheTrends = {item \in ItemNames : Qualifying(item) # {}}
        /\ \A item \in DOMAIN TheTrends :
            LET last == CHOOSE i \in Qualifying(item) :
                            \A j \in Qualifying(item) : j <= i
            IN  TheTrends[item] = RecordOverFilled(data[last])

\* Two rows of the service share an item name, both have two non-empty cells
\* and different records: the record kept is the later row's.
C8_Witness ==
    /\ Analysed
    /\ \E i, j \in RowsOfService :
        /\ i < j
        /\ data[i].vals["item"] = data[j].vals["item"]
        /\ Cardinality(Filled(data[i])) >= 2
        /\ Cardinality(Filled(data[j])) >= 2
        /\ RecordOverFilled(data[i]) # RecordOverFilled(data[j])
        /\ TheTrends[data[j].vals["item"]] = RecordOverFilled(data[j])

-----------------------------------------------------------------------------
(* The claims about an execution *)

(* C6 *)

\* C6 as stated: a second complete execution on the same input leaves the
\* files the first one left, whatever the order of the services and the date.
C6_SecondRunLeavesSameFiles ==
    (run = 2 /\ pc = "done") => files = first.files

\* C6 amended: the second execution leaves files of the same names, and the
\* same contents when it renders the services in the same order on the same
\* dates as the first.
C6_SameFilesOnSameDateAndOrder ==
    (run = 2 /\ pc = "done") =>
        /\ DOMAIN files = DOMAIN first.files
        /\ iterated = first.iterated => files = first.files

\* A second execution over two services, in the order and on the date of the
\* first, has ended with the files the first one left.
C6_Witness ==
    /\ run = 2
    /\ pc = "done"
    /\ Len(iterated) = 2
    /\ iterated = first.iterated
    /\ files = first.files

(* C7 *)

\* C7: when run_analysis has completed there are as many report files as
\* services, and every service's file holds that service's report.
C7_OneReportPerService ==
    pc = "done" =>
        /\ Cardinality(DOMAIN files) = Cardinality(services)
        /\ \A service_name \in services :
            /\ Filename(service_name) \in DOMAIN files
            /\ files[Filename(service_name)][1].title = service_name

(* C9 *)

\* The log is the load, which has not failed, followed by one block of steps
\* per service, each block running through `order` from its start, no service
\* in two blocks.
InOrder(order) ==
    /\ pc \notin {"start", "failed"} => (log # <<>> /\ log[1].step = "load")
    /\ \A k \in DOMAIN log : k > 1 =>
        LET pos == (k - 2) % Len(order)
        IN  /\ log[k].step = order[pos + 1]
            /\ log[k].service = log[k - pos].service
    /\ \A j, k \in DOMAIN log :
        (j < k /\ log[j].step = order[1] /\ log[k].step = order[1])
            => log[j].service # log[k].service

\* C9 as stated: load, then per service trends, classification, suggestion
\* lookup, Markdown rendering, write, one service after another.
C9_PipelineOrderAsStated ==
    InOrder(<<"trends", "classify", "suggest", "head", "body", "write">>)

\* C9 amended: load, then per service trends, classification, the first part
\* of the Markdown rendering, the suggestion lookup, the rest of the
\* rendering, and the write last and once, one service after another.
C9_PipelineOrder ==
    InOrder(<<"trends", "classify", "head", "suggest", "body", "write">>)

\* Two services processed to the end, each written once.
C9_Witness ==
    /\ pc = "done"
    /\ Cardinality({k \in DOMAIN log : log[k].step = "write"}) = 2
    /\ Cardinality(services) = 2

(* C10 *)

\* C10: once the suggestions of a service whose 'All' growth rate exceeds 20
\* have been looked up, they contain the urgent review.
C10_UrgentReviewOnRapidGrowth ==
    (/\ pc \in {"body", "write"}
     /\ "All" \in DOMAIN analysis.cost_trends
     /\ Exceeds(analysis.cost_trends["All"].growth_rate, 20))
        => UrgentReview \in Range(markdown.suggestions)

(* C11 *)

AtLeast(g, n) == g.num >= n * g.den

AtMost(g, n) == g.num <= n * g.den

\* C11: the wording of the trend label is matched by the growth rate of 'All',
\* boundaries included: 20 or more is labelled rapid growth (20% or more), 5 or
\* more and below 20 growth (5% or more), -10 or lower cost reduction (10% or
\* more).
C11_LabelWordingHolds ==
    (Analysed /\ "All" \in DOMAIN TheTrends) =>
        LET g == TheTrends["All"].growth_rate
        IN  /\ AtLeast(g, 20) => TheCharacteristics[1] = RapidGrowth
            /\ (AtLeast(g, 5) /\ ~AtLeast(g, 20)) => TheCharacteristics[1] = Growth
            /\ AtMost(g, -10) => TheCharacteristics[1] = CostReduction

(* C12 *)

Drawn == result # <<>>

TheLines == result[1].drawn.chart.lines

TheLegend == result[1].drawn.legend

\* The amount of a month of a row in tenths, an empty cell counting as 0.
TenthsAt(row, col) ==
    LET cell == row.vals[col]
    IN  IF cell = <<>> THEN 0
        ELSE cell[1] * 10 + (IF Len(cell) = 2 THEN cell[2] ELSE 0)

\* The average monthly cost of a row over the window.
AverageOf(row) ==
    Frac(SumSeq([k \in DOMAIN Window |-> TenthsAt(row, Window[k])]), 10 * Len(Window))

\* A row as a plotted series: its item name and its monthly costs in hundredths.
Plotted(row) ==
    [name  |-> row.vals["item"],
     costs |-> [k \in DOMAIN Window |-> TenthsAt(row, Window[k]) * 10]]

\* A row as a legend entry: its item name and its average in hundredths.
Listed(row) == [name |-> row.vals["item"], avg |-> Fmt2(AverageOf(row))]

AllRows == {i \in RowsOfService : data[i].vals["item"] = "All"}

OtherRows == RowsOfService \ AllRows

\* The k-th highest average among the rows that are not 'All'.
KthHighest(k) ==
    CHOOSE v \in {AverageOf(data[i]) : i \in OtherRows} :
        /\ Cardinality({i \in OtherRows : Less(v, AverageOf(data[i]))}) < k
        /\ k <= Cardinality({i \in OtherRows : ~Less(AverageOf(data[i]), v)})

Smaller(a, b) == IF a < b THEN a ELSE b

\* C12: the chart holds at most 4 series; an 'All' row of the service comes
\* first, followed by the up to 3 (without 'All': up to 4) other rows of the
\* highest averages in descending order, each row plotted at most once; the
\* legend lists the plotted series in the same order.
C12_SeriesSelection ==
    Drawn =>
        LET n    == Len(TheLines)
            lead == IF AllRows # {} THEN 1 ELSE 0
        IN  /\ n <= 4
            /\ n = lead + Smaller(Cardinality(OtherRows), 4 - lead)
            /\ Len(TheLegend) = n
            /\ AllRows # {} =>
                   \E i \in AllRows : /\ TheLines[1] = Plotted(data[i])
                                      /\ TheLegend[1] = Listed(data[i])
            /\ \A k \in (lead + 1)..n :
                   \E i \in OtherRows : /\ AverageOf(data[i]) = KthHighest(k - lead)
                                        /\ TheLines[k] = Plotted(data[i])
                                        /\ TheLegend[k] = Listed(data[i])
            /\ \A k \in 1..n :
                   Cardinality({j \in 1..n : TheLines[j] = TheLines[k]})
                       <= Cardinality({i \in RowsOfService :
                                          Plotted(data[i]) = TheLines[k]})

\* A chart of an 'All' row and four other rows, one of them left out and one
\* of them costlier on average than 'All'.
C12_Witness ==
    /\ Drawn
    /\ AllRows # {}
    /\ Cardinality(OtherRows) = 4
    /\ Len(TheLines) = 4
    /\ \E i \in OtherRows, j \in OtherRows : Less(AverageOf(data[i]), AverageOf(data[j]))
    /\ \E i \in OtherRows : \A a \in AllRows : Less(AverageOf(data[a]), AverageOf(data[i]))

(* C13 *)

\* C13: when the input cannot be loaded, the execution ends in failure having
\* at most created the output directory: no report file is written or changed,
\* the input is left alone, and no step of run_analysis follows.
C13_LoadFailure ==
    [][/\ (pc = "start" /\ ~Loadable) =>
              /\ pc' = "failed"
              /\ files' = files
              /\ csv' = csv
              /\ exists' = [exists EXCEPT !.output_docs_path = TRUE]
       /\ pc # "failed"]_vars

\* A second execution has failed on a removed input file and the reports of
\* the first are all in place.
C13_Witness ==
    /\ pc = "failed"
    /\ run = 2
    /\ ~exists.csv_path
    /\ exists.output_docs_path
    /\ files # EmptyMap
    /\ files = first.files

(* C14 *)

TheYAxis == result[1].drawn.chart.y_axis

\* C14: the y-axis range of the chart, 0 to int(1.1 * max plotted cost),
\* contains every plotted value of every series (values in hundredths).
C14_YAxisCoversPlot ==
    Drawn =>
        \A k \in DOMAIN TheLines :
            \A m \in DOMAIN TheLines[k].costs :
                /\ TheYAxis[1] * 100 <= TheLines[k].costs[m]
                /\ TheLines[k].costs[m] <= TheYAxis[2] * 100

(* C15 *)

\* C15: every record of cost_trends has 0 <= min <= average <= max,
\* volatility = max - min >= 0 and growth_rate >= -100, and its growth_rate is
\* -100 exactly when the last amount of a row of that item is 0 and the first
\* is positive, first and last being the first and the last month of the
\* window.
C15_MetricRecordInvariant ==
    Analysed =>
        \A item \in DOMAIN TheTrends :
            LET m == TheTrends[item]
            IN  /\ 0 <= m.min
                /\ m.min * m.average.den <= m.average.num
                /\ m.average.num <= m.max * m.average.den
                /\ m.volatility = m.max - m.min
                /\ m.volatility >= 0
                /\ ~Below(m.growth_rate, -100)
                /\ \E i \in RowsOfService :
                       /\ data[i].vals["item"] = item
                       /\ m.growth_rate = FromInt(-100)
                              <=> /\ AmountAt(data[i], Window[Len(Window)]) = 0
                                  /\ AmountAt(data[i], Window[1]) > 0

====
